---- MODULE Spec2Model ----
(***************************************************************************)
(* Model of the file-based session store of src/session_manager.py         *)
(* (class SessionManager), Unix locking branch (fcntl.flock).              *)
(*                                                                         *)
(* A string is a sequence of one-character strings, so that the identifier *)
(* validator can be computed character by character as the code does.      *)
(* None is the empty tuple << >> and a present optional value x is <<x>>.  *)
(***************************************************************************)
EXTENDS Integers, Sequences, FiniteSets, TLC

(***************************************************************************)
(* Characters and string helpers                                           *)
(***************************************************************************)
Digits == {"0", "1", "2", "3", "4", "5", "6", "7", "8", "9"}

LowerLetters ==
    {"a", "b", "c", "d", "e", "f", "g", "h", "i", "j", "k", "l", "m",
     "n", "o", "p", "q", "r", "s", "t", "u", "v", "w", "x", "y", "z"}

UpperLetters ==
    {"A", "B", "C", "D", "E", "F", "G", "H", "I", "J", "K", "L", "M",
     "N", "O", "P", "Q", "R", "S", "T", "U", "V", "W", "X", "Y", "Z"}

HexDigits == Digits \cup {"a", "b", "c", "d", "e", "f", "A", "B", "C", "D", "E", "F"}

\* str.isspace() characters of the modelled alphabet
Whitespace == {" ", "\t", "\n"}

\* allowed_chars of _is_valid_session_id
allowed_chars == LowerLetters \cup UpperLetters \cup Digits \cup {"-", "_"}

Rep(c, n) == [i \in 1..n |-> c]

SetMin(S) == CHOOSE x \in S : \A y \in S : x <= y

SetMax(S) == CHOOSE x \in S : \A y \in S : y <= x

StartsWithAt(s, i, pat) ==
    /\ i + Len(pat) - 1 <= Len(s)
    /\ \A j \in 1..Len(pat) : s[i + j - 1] = pat[j]

\* s.replace(pat, ''): leftmost, non-overlapping occurrences, one pass
RECURSIVE RemoveFrom(_, _, _)
RemoveFrom(s, pat, i) ==
    IF i > Len(s) THEN << >>
    ELSE IF StartsWithAt(s, i, pat) THEN RemoveFrom(s, pat, i + Len(pat))
    ELSE <<s[i]>> \o RemoveFrom(s, pat, i + 1)

StrRemove(s, pat) == RemoveFrom(s, pat, 1)

\* s.strip(chars)
StrStrip(s, chars) ==
    LET keep == {i \in 1..Len(s) : s[i] \notin chars}
    IN  IF keep = {} THEN << >> ELSE SubSeq(s, SetMin(keep), SetMax(keep))

Tail2(s) == SubSeq(s, 3, Len(s))

(***************************************************************************)
(* uuid.UUID(hex) and int(hex, 16), as called by _is_valid_session_id      *)
(***************************************************************************)
UuidHexLen == 32

\* the digit part of int(s, 16): hex digits, single underscores between them
HexDigitRun(d) ==
    /\ Len(d) >= 1
    /\ \A i \in 1..Len(d) : d[i] \in HexDigits \cup {"_"}
    /\ d[1] # "_"
    /\ d[Len(d)] # "_"
    /\ \A i \in 1..(Len(d) - 1) : ~(d[i] = "_" /\ d[i + 1] = "_")

\* int(s, 16) does not raise ValueError
IntBase16Parses(s) ==
    LET t == StrStrip(s, Whitespace)
        u == IF Len(t) >= 1 /\ t[1] \in {"+", "-"} THEN Tail(t) ELSE t
        hasPrefix == Len(u) >= 2 /\ u[1] = "0" /\ u[2] \in {"x", "X"}
        v == IF hasPrefix THEN Tail2(u) ELSE u
        w == IF hasPrefix /\ Len(v) >= 1 /\ v[1] = "_" THEN Tail(v) ELSE v
    IN  HexDigitRun(w)

\* uuid.UUID(s) does not raise ValueError
UuidParses(s) ==
    LET h1 == StrRemove(StrRemove(s, <<"u", "r", "n", ":">>), <<"u", "u", "i", "d", ":">>)
        h2 == StrRemove(StrStrip(h1, {"{", "}"}), <<"-">>)
    IN  Len(h2) = UuidHexLen /\ IntBase16Parses(h2)

(***************************************************************************)
(* SessionManager._is_valid_session_id                                     *)
(***************************************************************************)
MinIdLen == 3

MaxIdLen == 64

LengthInRange(s) == MinIdLen <= Len(s) /\ Len(s) <= MaxIdLen

is_valid_session_id(s) ==
    IF Len(s) = 0 THEN FALSE
    ELSE IF UuidParses(s) THEN TRUE
    ELSE IF ~LengthInRange(s) THEN FALSE
    ELSE \A i \in 1..Len(s) : s[i] \in allowed_chars

(***************************************************************************)
(* Identifiers used as inputs                                              *)
(***************************************************************************)
\* the canonical 8-4-4-4-12 text of a UUID whose 32 hex digits are all h
CanonicalUuid(h) ==
    Rep(h, 8) \o <<"-">> \o Rep(h, 4) \o <<"-">> \o Rep(h, 4) \o <<"-">>
        \o Rep(h, 4) \o <<"-">> \o Rep(h, 12)

IsCanonicalUuid(s) ==
    /\ Len(s) = 36
    /\ \A i \in 1..36 :
          IF i \in {9, 14, 19, 24} THEN s[i] = "-" ELSE s[i] \in HexDigits

\* how far past MaxIdLen the candidate lengths go
LenSlack == 2

CandChars == {"a", "F", "7", "-", "_", "/", ".", " ", "{"}

BadChars == {"/", ".", "\n", " ", "{", ":", "+"}

UuidShapes ==
    LET c == CanonicalUuid("1")
        h == Rep("0", UuidHexLen)
        h31 == Rep("0", UuidHexLen - 1)
    IN  { c, CanonicalUuid("g"), Tail(c),
          <<"{">> \o c \o <<"}">>, <<"{">> \o c, <<"}">> \o h \o <<"{">>,
          <<"u", "r", "n", ":", "u", "u", "i", "d", ":">> \o c,
          <<"u", "r", "n", ":">> \o h, <<"u", "u", "i", "d", ":">> \o h,
          <<"+">> \o h31, <<" ">> \o h31, <<"\n">> \o h31, <<"_">> \o h31,
          <<"0", "x">> \o Tail(h31), h31 \o <<"/">>,
          <<".", ".", "/">> \o h }
    \cup { Rep("0", UuidHexLen) \o Rep("-", k) :
             k \in {0, MaxIdLen - UuidHexLen, MaxIdLen - UuidHexLen + 1} }

Candidates ==
    { Rep(c, n) : c \in CandChars, n \in 0..(MaxIdLen + LenSlack) }
    \cup { Rep("a", n) \o <<c>> : c \in BadChars, n \in {1, 2, 10, MaxIdLen - 1} }
    \cup { <<".", ".">>, <<".", ".", "/", "x">>, <<"a", "/", "b">> }
    \cup UuidShapes

(***************************************************************************)
(* Python values: None, int, str, and dict as the insertion-ordered        *)
(* sequence of its <<key, value>> items                                    *)
(***************************************************************************)
PyNone == <<"None">>

PyInt(n) == <<"int", n>>

PyStr(s) == <<"str", s>>

PyDict(items) == <<"dict", items>>

IsNone(v) == v[1] = "None"

\* bool(v) for the values above
Truthy(v) ==
    CASE v[1] = "None" -> FALSE
      [] v[1] = "int" -> v[2] # 0
      [] v[1] = "str" -> Len(v[2]) > 0
      [] v[1] = "dict" -> Len(v[2]) > 0

HasKey(d, k) == \E i \in 1..Len(d) : d[i][1] = k

\* d.get(k): None when the key is missing
DictGet(d, k) ==
    IF HasKey(d, k)
    THEN d[SetMax({i \in 1..Len(d) : d[i][1] = k})][2]
    ELSE PyNone

\* d[k] = v: an existing key keeps its place
DictPut(d, k, v) ==
    IF HasKey(d, k)
    THEN [i \in 1..Len(d) |-> IF d[i][1] = k THEN <<k, v>> ELSE d[i]]
    ELSE Append(d, <<k, v>>)

(***************************************************************************)
(* The record codec: json.dump(obj, f, indent=2) and json.load(f).         *)
(* A text is the sequence of the lines json.dump writes: the opening       *)
(* brace, one line per item (a nested non-empty dict opens on its item's   *)
(* line, has one line per item of its own and a closing line), the closing *)
(* brace. The empty text is the empty sequence.                            *)
(***************************************************************************)
OpenLine == [t |-> "open", k |-> "", v |-> << >>]

CloseLine == [t |-> "close", k |-> "", v |-> << >>]

ItemLine(k, jv) == [t |-> "item", k |-> k, v |-> jv]

NestLine(k) == [t |-> "nest", k |-> k, v |-> << >>]

JsonScalar(v) ==
    CASE v[1] = "None" -> <<"null">>
      [] v[1] = "int" -> <<"number", v[2]>>
      [] v[1] = "str" -> <<"string", v[2]>>
      [] v[1] = "dict" -> <<"object">>

PyScalar(jv) ==
    CASE jv[1] = "null" -> PyNone
      [] jv[1] = "number" -> PyInt(jv[2])
      [] jv[1] = "string" -> PyStr(jv[2])
      [] jv[1] = "object" -> PyDict(<< >>)

DumpInner(items) == [i \in 1..Len(items) |-> ItemLine(items[i][1], JsonScalar(items[i][2]))]

DumpItem(k, v) ==
    IF v[1] = "dict" /\ Len(v[2]) > 0
    THEN <<NestLine(k)>> \o DumpInner(v[2]) \o <<CloseLine>>
    ELSE <<ItemLine(k, JsonScalar(v))>>

RECURSIVE DumpItems(_, _)
DumpItems(d, i) ==
    IF i > Len(d) THEN << >>
    ELSE DumpItem(d[i][1], d[i][2]) \o DumpItems(d, i + 1)

\* json.dump of a dict
JsonDump(d) == <<OpenLine>> \o DumpItems(d, 1) \o <<CloseLine>>

ParseError == [ok |-> FALSE, val |-> << >>, next |-> 0]

\* the items of a nested dict that starts at line i: up to its closing line
RECURSIVE ParseInner(_, _, _)

\* ParseInner(text, i, acc), with i and acc computed once, before the call:
\* an operator's argument is otherwise computed anew wherever it is used
ParseInnerOf(text, i, acc) ==
    CHOOSE r \in {ParseInner(text, j, d) : j \in {i}, d \in {acc}} : TRUE

ParseInner(text, i, acc) ==
    IF i > Len(text) THEN ParseError
    ELSE IF text[i].t = "close" THEN [ok |-> TRUE, val |-> acc, next |-> i + 1]
    ELSE IF text[i].t = "item"
         THEN ParseInnerOf(text, i + 1, DictPut(acc, text[i].k, PyScalar(text[i].v)))
    ELSE ParseError

\* the items of the top-level dict from line i: its closing line must be the last
RECURSIVE ParseTop(_, _, _)

\* ParseTop(text, i, acc), with i and acc computed once, before the call
ParseTopOf(text, i, acc) ==
    CHOOSE r \in {ParseTop(text, j, d) : j \in {i}, d \in {acc}} : TRUE

ParseTop(text, i, acc) ==
    IF i > Len(text) THEN ParseError
    ELSE IF text[i].t = "close"
         THEN IF i = Len(text) THEN [ok |-> TRUE, val |-> acc, next |-> i + 1]
              ELSE ParseError
    ELSE IF text[i].t = "item"
         THEN ParseTopOf(text, i + 1, DictPut(acc, text[i].k, PyScalar(text[i].v)))
    ELSE IF text[i].t = "nest"
         THEN LET r == ParseInner(text, i + 1, << >>)
              IN  IF r.ok
                  THEN ParseTopOf(text, r.next, DictPut(acc, text[i].k, PyDict(r.val)))
                  ELSE ParseError
    ELSE ParseError

\* json.load: ok is FALSE where it raises JSONDecodeError
JsonLoad(text) ==
    IF Len(text) = 0 THEN ParseError
    ELSE IF text[1].t # "open" THEN ParseError
    ELSE ParseTop(text, 2, << >>)

(***************************************************************************)
(* Inputs of the store operations                                          *)
(***************************************************************************)
IdAbc == <<"a", "b", "c">>

IdXyz == <<"X", "y", "-", "_", "9">>

IdShort == <<"a", "b">>

IdTraversal == <<".", ".", "/", "x">>

IdBraced == <<"{">> \o CanonicalUuid("2") \o <<"}">>

\* the identifiers uuid.uuid4() can hand out in one behaviour
UuidPool == {CanonicalUuid("1")}

InputIds == {<< >>, IdShort, IdTraversal, IdAbc, IdXyz, IdBraced} \cup UuidPool

\* the identifiers the store can hold a file for: those the validator accepts
Names == {s \in InputIds : is_valid_session_id(s)}

Ext == <<".", "j", "s", "o", "n">>

\* every session in the file of one id
get_session_path_shared(session_id) == IdAbc \o Ext

\* _get_session_path, line 53, for an id that passed the check of line 51:
\* sessions_dir / f"{session_id}.json"
get_session_path(session_id) == session_id \o Ext

\* filepath.stem
Stem(filepath) == SubSeq(filepath, 1, Len(filepath) - Len(Ext))

Paths == {get_session_path(s) : s \in Names}

FieldSets ==
    << [token |-> <<"t", "1">>, api_url |-> <<"u", "1">>, portal_domain |-> <<"d", "1">>,
        user_email |-> <<"e", "1">>, app_user_id |-> <<"a", "1">>,
        company_id |-> <<"c", "1">>, profile_id |-> <<"p", "1">>,
        user_data |-> PyDict(<< <<"k", PyStr(<<"v">>)>> >>)],
       [token |-> <<"t", "2">>, api_url |-> <<"u", "2">>, portal_domain |-> <<"d", "2">>,
        user_email |-> <<"e", "2">>, app_user_id |-> <<"a", "2">>,
        company_id |-> <<"c", "2">>, profile_id |-> <<"p", "2">>,
        user_data |-> PyNone] >>

\* the last value of the clock
MaxTime == 1

\* how many calls parallel callers make in all
MaxCalls == 3

\* the 60 seconds of _is_expired
Skew == 60

ThreadIds == {"t1", "t2"}

NoThread == "none"

Inodes == 1..(Cardinality(Names) + Cardinality(ThreadIds))

(***************************************************************************)
(* State                                                                   *)
(***************************************************************************)
VARIABLES
    cand,      \* the string handed to the validator
    checked,   \* whether the validator has run on cand
    verdict,   \* what _is_valid_session_id returned for it
    cfg,       \* the callers: which threads call, with which arguments
    now,       \* time.time(), in seconds
    dir,       \* sessions_dir: file path -> inode, 0 where there is no file
    content,   \* inode -> text of the file
    lockedBy,  \* inode -> thread holding its flock, or NoThread
    issued,    \* the identifiers uuid.uuid4() has returned
    calls,     \* how many calls have been made, where the callers count them
    created,   \* id -> for each create_session call on it, whether it ran alone
    removed,   \* the ids whose file has been unlinked
    th,        \* thread -> its position and locals
    last       \* the call that returned last, until the next call is made

vars ==
    <<cand, checked, verdict, cfg, now, dir, content, lockedBy, issued, calls, created,
      removed, th, last>>

validatorVars == <<cand, checked, verdict>>

counts == <<calls, created>>

\* what no step of the store changes
fixed == <<validatorVars, cfg>>

NoCall == [op |-> "none", id |-> << >>, fs |-> 0, exp |-> PyNone]

NoRes == [kind |-> "none", val |-> << >>]

\* what a proxy tool keeps: its name, the argument it requires, whether it
\* has called load_session, what load_session returned, the requests it sent
NoTool == [name |-> "", arg |-> << >>, loaded |-> FALSE, session |-> << >>, req |-> << >>]

\* what is kept of a call after it has returned: its arguments, the kind of
\* its result and, for create_session, the id it returned and whether the id
\* had a file when the call was made
NoOp ==
    [op |-> "none", id |-> << >>, fs |-> 0, exp |-> PyNone, kind |-> "none",
     ret |-> << >>, over |-> FALSE]

\* pc and stack: where the thread is; id, data, sess, fd, todo, out, count:
\* the locals of the running call; call: the top-level call and its
\* arguments; res: its result once pc is "done"; touched: whether it has
\* accessed storage; tchk: the time _is_expired read; pre: the files as they
\* were when the call was made; follows: the call on the same id that
\* returned just before this one was made, with no call in between; path: the
\* file cleanup_expired_sessions is at; t0: the time the call was made; quiet:
\* whether no other thread was inside a call then; nth: which call it is,
\* where the callers count them; tool: the locals of a proxy tool;
\* unlinked: how many files the call has removed; exc:
\* the exception load_session caught at line 166; bumpExc: the one
\* _update_access_time swallowed at line 251
IdleThread ==
    [pc |-> "idle", stack |-> << >>, id |-> << >>, path |-> << >>, data |-> << >>,
     sess |-> << >>, fd |-> 0, todo |-> {}, out |-> << >>, count |-> 0,
     touched |-> FALSE, tchk |-> -1, t0 |-> -1, quiet |-> TRUE, nth |-> 0,
     exc |-> "", bumpExc |-> "", call |-> NoCall,
     res |-> NoRes, pre |-> << >>, follows |-> NoOp, tool |-> NoTool,
     unlinked |-> 0]

OpRec(t) ==
    [op |-> t.call.op, id |-> t.call.id, fs |-> t.call.fs, exp |-> t.call.exp,
     kind |-> t.res.kind,
     ret |-> IF t.call.op = "create" /\ t.res.kind = "id" THEN t.res.val ELSE << >>,
     over |-> /\ t.call.op = "create" /\ t.res.kind = "id" /\ cfg.snapshots
              /\ t.pre[t.res.val] # << >>]

\* the top-level call returns (or raises): kind and val are its result
Finish(t, kind, val) ==
    [t EXCEPT !.pc = "done", !.stack = << >>, !.res = [kind |-> kind, val |-> val]]

Continue(t) == t

\* the call l was on the id idopt: it was given it or, for create_session,
\* returned it
SameId(l, idopt) == Len(idopt) = 1 /\ (l.id = idopt \/ l.ret = idopt[1])

Follows(idopt) == IF SameId(last, idopt) THEN last ELSE NoOp

Pop(stack) == SubSeq(stack, 1, Len(stack) - 1)

Top(stack) == stack[Len(stack)]

(***************************************************************************)
(* The file system: open files keep their inode after an unlink            *)
(***************************************************************************)
Linked(d, n) == \E path \in Paths : d[path] = n

Opened(thr, n) == \E q \in ThreadIds : thr[q].fd = n

\* a directory that gives every new file the same inode
BusyInode == SetMin(Inodes)

FreeInode == SetMin({n \in Inodes : ~Linked(dir, n) /\ ~Opened(th, n)})

\* an inode no name and no open file refers to is gone
Gc(c, d, thr) ==
    [n \in Inodes |-> IF Linked(d, n) \/ Opened(thr, n) THEN c[n] ELSE << >>]

\* the persisted records: id -> the text of its file, if there is one
Files ==
    [name \in Names |->
       IF dir[get_session_path(name)] = 0 THEN << >>
       ELSE <<content[dir[get_session_path(name)]]>>]

\* the files as a call finds them, where the callers keep them and the time
Snapshot == IF cfg.snapshots THEN Files ELSE << >>

\* write(2) of text at offset 0 of a file holding old
WriteAt0(old, text) == text \o SubSeq(old, Len(text) + 1, Len(old))

(***************************************************************************)
(* Returns: a call made by list_sessions, load_session or                  *)
(* cleanup_expired_sessions goes on in its caller                          *)
(***************************************************************************)
\* time.strftime(fmt, time.localtime(v)): localtime(None) is the current time
Strftime(v) == <<"strftime", IF IsNone(v) THEN now ELSE v[2]>>

GetOr0(s, k) == IF HasKey(s, k) THEN DictGet(s, k) ELSE PyInt(0)

\* lines 195-204
Summary(id, s) ==
    [session_uuid |-> id, session_id |-> id,
     user_email |-> DictGet(s, "user_email"),
     app_user_id |-> DictGet(s, "app_user_id"),
     company_id |-> DictGet(s, "company_id"),
     profile_id |-> DictGet(s, "profile_id"),
     created_at |-> Strftime(GetOr0(s, "created_at")),
     expires_at |-> Strftime(GetOr0(s, "exp"))]

\* load_session returns r: None (<< >>) or the dict <<d>>
LoadRet(t, r) ==
    IF Len(t.stack) = 1
    THEN Finish(t, IF Len(r) = 0 THEN "None" ELSE "dict", r)
    ELSE IF Top(Pop(t.stack)) = "tool"
    THEN Continue([t EXCEPT !.stack = Pop(@), !.pc = "t_check", !.id = << >>,
                            !.data = << >>, !.sess = << >>, !.exc = "",
                            !.bumpExc = "", !.tool.session = r])
    ELSE Continue([t EXCEPT !.stack = Pop(@), !.pc = "ls_next", !.id = << >>,
                            !.data = << >>, !.sess = << >>, !.exc = "",
                            !.bumpExc = "",
                            !.out = IF Len(r) = 0 THEN @
                                    ELSE Append(@, Summary(t.id, r[1]))])

\* delete_session reporting a removal whether or not there was a file
DeleteRetTrue(t, b) ==
    IF Len(t.stack) = 1
    THEN Finish(t, "True", << >>)
    ELSE LET u == [t EXCEPT !.stack = Pop(@)]
         IN  IF Top(u.stack) = "load"
             THEN LoadRet(u, << >>)
             ELSE Continue([u EXCEPT !.pc = "k_next", !.id = << >>, !.path = << >>,
                                     !.data = << >>, !.count = @ + 1])

\* delete_session returns b
DeleteRet(t, b) ==
    IF Len(t.stack) = 1
    THEN Finish(t, IF b THEN "True" ELSE "False", << >>)
    ELSE LET u == [t EXCEPT !.stack = Pop(@)]
         IN  IF Top(u.stack) = "load"
             THEN LoadRet(u, << >>)
             ELSE Continue([u EXCEPT !.pc = "k_next", !.id = << >>, !.path = << >>,
                                     !.data = << >>,
                                     !.count = @ + 1])

Falsy(idopt) == Len(idopt) = 0 \/ Len(idopt[1]) = 0

\* a delete_session that gives up before it looks for the file
DeleteEntrySkip(t, idopt) == DeleteRet(t, FALSE)

\* delete_session lines 172-176, for a thread t whose stack already holds "delete"
DeleteEntry(t, idopt) ==
    IF Falsy(idopt) THEN DeleteRet(t, FALSE)
    ELSE IF ~is_valid_session_id(idopt[1]) THEN DeleteRet(t, FALSE)
    ELSE Continue([t EXCEPT !.pc = "d_exists", !.id = idopt[1]])

(***************************************************************************)
(* Callers                                                                 *)
(***************************************************************************)
\* cfg.maxCalls = 0: the callers go on calling
MayCall(p) ==
    /\ p \in cfg.threads
    /\ th[p].pc = "idle"
    /\ cfg.maxCalls = 0 \/ calls < cfg.maxCalls

\* no other thread is inside a call
Quiet(p) == \A q \in ThreadIds \ {p} : th[q].pc \in {"idle", "done"}

\* the thread p as it enters call
Called(p, call) ==
    [IdleThread EXCEPT !.call = call, !.stack = <<call.op>>, !.quiet = Quiet(p),
                       !.nth = IF cfg.maxCalls = 0 THEN 0 ELSE calls + 1,
                       !.t0 = IF cfg.snapshots THEN now ELSE -1, !.pre = Snapshot]

CallMade(p, call) ==
    /\ last' = NoOp
    /\ calls' = IF cfg.maxCalls = 0 THEN calls ELSE calls + 1
    /\ created' = IF cfg.maxCalls # 0 /\ call.op = "create" /\ call.id \in DOMAIN created
                  THEN [created EXCEPT ![call.id] = Append(@, Quiet(p))]
                  ELSE created

(***************************************************************************)
(* SessionManager._is_expired                                              *)
(***************************************************************************)
\* the boundary second itself not yet expired
is_expired_after(session, t) ==
    LET exp == DictGet(session, "exp")
    IN  IF ~Truthy(exp) THEN FALSE ELSE t > exp[2] - Skew

\* a record without expiry taken for expired
is_expired_unset(session, t) ==
    LET exp == DictGet(session, "exp")
    IN  IF ~Truthy(exp) THEN TRUE ELSE t >= exp[2] - Skew

is_expired(session, t) ==
    LET exp == DictGet(session, "exp")
    IN  IF ~Truthy(exp) THEN FALSE ELSE t >= exp[2] - Skew

(***************************************************************************)
(* SessionManager.create_session                                           *)
(***************************************************************************)
\* session_data with the company and the profile the wrong way round
BuildSessionMixed(id, f, exp, t) ==
    << <<"session_uuid", PyStr(id)>>,
       <<"session_id", PyStr(id)>>,
       <<"token", PyStr(f.token)>>,
       <<"api_url", PyStr(f.api_url)>>,
       <<"portal_domain", PyStr(f.portal_domain)>>,
       <<"user_email", PyStr(f.user_email)>>,
       <<"app_user_id", PyStr(f.app_user_id)>>,
       <<"company_id", PyStr(f.profile_id)>>,
       <<"profile_id", PyStr(f.company_id)>>,
       <<"exp", exp>>,
       <<"created_at", PyInt(t)>>,
       <<"last_accessed", PyInt(t)>>,
       <<"user_data", IF Truthy(f.user_data) THEN f.user_data ELSE PyDict(<< >>)>> >>

\* session_data, lines 108-122
BuildSession(id, f, exp, t) ==
    << <<"session_uuid", PyStr(id)>>,
       <<"session_id", PyStr(id)>>,
       <<"token", PyStr(f.token)>>,
       <<"api_url", PyStr(f.api_url)>>,
       <<"portal_domain", PyStr(f.portal_domain)>>,
       <<"user_email", PyStr(f.user_email)>>,
       <<"app_user_id", PyStr(f.app_user_id)>>,
       <<"company_id", PyStr(f.company_id)>>,
       <<"profile_id", PyStr(f.profile_id)>>,
       <<"exp", exp>>,
       <<"created_at", PyInt(t)>>,
       <<"last_accessed", PyInt(t)>>,
       <<"user_data", IF Truthy(f.user_data) THEN f.user_data ELSE PyDict(<< >>)>> >>

ExpChoices == {PyNone} \cup {PyInt(e) : e \in cfg.exps} \cup {PyInt(now + d) : d \in cfg.offsets}

\* an identifier generator that repeats itself
AnyUuids == UuidPool

\* uuid.uuid4(): an identifier never seen before
FreshUuids == {u \in UuidPool : u \notin issued /\ dir[get_session_path(u)] = 0}

\* lines 99-119: the id is checked or generated, created_at is read
CallCreate(p) ==
    /\ MayCall(p)
    /\ \E c \in cfg.creates, exp \in ExpChoices :
         LET idopt == c[1]
             fs == c[2]
             call == [op |-> "create", id |-> idopt, fs |-> fs, exp |-> exp]
             t0 == Called(p, call)
             given == Len(idopt) = 1 /\ Len(idopt[1]) > 0
         IN  /\ CallMade(p, call)
             /\ IF given /\ ~is_valid_session_id(idopt[1])
                THEN /\ th' = [th EXCEPT ![p] = Finish(t0, "ValueError", << >>)]
                     /\ UNCHANGED issued
                ELSE \E id \in (IF given THEN {idopt[1]} ELSE FreshUuids) :
                     /\ th' = [th EXCEPT ![p] =
                                 [t0 EXCEPT !.pc = "c_build", !.id = id,
                                            !.data = BuildSession(id, FieldSets[fs], exp, now)]]
                     /\ issued' = IF given THEN issued ELSE issued \cup {id}
    /\ UNCHANGED <<fixed, now, dir, content, lockedBy, removed>>

\* lines 120-124: last_accessed is read, _get_session_path checks the id
CreateBuild(p) ==
    LET t == th[p]
        r == IF is_valid_session_id(t.id)
             THEN Continue([t EXCEPT !.pc = "c_exists",
                                     !.data = DictPut(@, "last_accessed", PyInt(now))])
             ELSE Finish(t, "ValueError", << >>)
    IN  /\ t.pc = "c_build"
        /\ th' = [th EXCEPT ![p] = r]
        /\ UNCHANGED <<fixed, now, dir, content, lockedBy, issued, counts, removed, last>>

\* line 127: path.exists(), for the warning only
CreateExists(p) ==
    /\ th[p].pc = "c_exists"
    /\ th' = [th EXCEPT ![p].pc = "c_open", ![p].touched = TRUE]
    /\ UNCHANGED <<fixed, now, dir, content, lockedBy, issued, counts, removed, last>>

\* an open that creates the file and keeps what an existing file holds
CreateOpenKeep(p) ==
    LET t == th[p]
        n == IF dir[get_session_path(t.id)] # 0 THEN dir[get_session_path(t.id)] ELSE FreeInode
    IN  /\ t.pc = "c_open"
        /\ dir' = [dir EXCEPT ![get_session_path(t.id)] = n]
        /\ th' = [th EXCEPT ![p].pc = "c_lock", ![p].fd = n]
        /\ UNCHANGED <<fixed, now, content, lockedBy, issued, counts, removed, last>>

\* line 131: open(path, 'w') creates the file or truncates it, before any lock
CreateOpen(p) ==
    LET t == th[p]
        n == IF dir[get_session_path(t.id)] # 0 THEN dir[get_session_path(t.id)] ELSE FreeInode
    IN  /\ t.pc = "c_open"
        /\ dir' = [dir EXCEPT ![get_session_path(t.id)] = n]
        /\ content' = [content EXCEPT ![n] = << >>]
        /\ th' = [th EXCEPT ![p].pc = "c_lock", ![p].fd = n]
        /\ UNCHANGED <<fixed, now, lockedBy, issued, counts, removed, last>>

\* lines 132-133: flock, then json.dump into the stream's buffer
CreateLock(p) ==
    LET t == th[p]
    IN  /\ t.pc = "c_lock"
        /\ lockedBy[t.fd] = NoThread
        /\ lockedBy' = [lockedBy EXCEPT ![t.fd] = p]
        /\ th' = [th EXCEPT ![p].pc = "c_unlock"]
        /\ UNCHANGED <<fixed, now, dir, content, issued, counts, removed, last>>

\* line 134: unlock_file
CreateUnlock(p) ==
    LET t == th[p]
    IN  /\ t.pc = "c_unlock"
        /\ lockedBy' = [lockedBy EXCEPT ![t.fd] = NoThread]
        /\ th' = [th EXCEPT ![p].pc = "c_close"]
        /\ UNCHANGED <<fixed, now, dir, content, issued, counts, removed, last>>

\* the end of the with block: close() flushes the buffer to the file; line 137
CreateClose(p) ==
    LET t == th[p]
        r == Finish(t, "id", t.id)
        th2 == [th EXCEPT ![p] = r]
        c2 == [content EXCEPT ![t.fd] = WriteAt0(@, JsonDump(t.data))]
    IN  /\ t.pc = "c_close"
        /\ th' = th2
        /\ content' = Gc(c2, dir, th2)
        /\ UNCHANGED <<fixed, now, dir, lockedBy, issued, counts, removed, last>>

(***************************************************************************)
(* SessionManager.load_session and _update_access_time                     *)
(***************************************************************************)
\* lines 145-149, for a thread t whose stack already holds "load"
LoadEntry(t, idopt) ==
    IF Falsy(idopt) THEN LoadRet(t, << >>)
    ELSE IF ~is_valid_session_id(idopt[1]) THEN LoadRet([t EXCEPT !.exc = "ValueError"], << >>)
    ELSE Continue([t EXCEPT !.pc = "l_exists", !.id = idopt[1]])

CallLoad(p) ==
    /\ MayCall(p)
    /\ \E idopt \in cfg.ids :
         LET call == [op |-> "load", id |-> idopt, fs |-> 0, exp |-> PyNone]
             r == LoadEntry([Called(p, call) EXCEPT !.follows = Follows(idopt)], idopt)
         IN  /\ th' = [th EXCEPT ![p] = r]
             /\ CallMade(p, call)
    /\ UNCHANGED <<fixed, now, dir, content, lockedBy, issued, removed>>

\* line 151
LoadExists(p) ==
    LET t == [th[p] EXCEPT !.touched = TRUE]
        r == IF dir[get_session_path(t.id)] = 0 THEN LoadRet(t, << >>)
             ELSE Continue([t EXCEPT !.pc = "l_open"])
    IN  /\ th[p].pc = "l_exists"
        /\ th' = [th EXCEPT ![p] = r]
        /\ UNCHANGED <<fixed, now, dir, content, lockedBy, issued, counts, removed, last>>

\* line 154: open(path, 'r'); FileNotFoundError goes to line 166
LoadOpen(p) ==
    LET t == th[p]
        r == IF dir[get_session_path(t.id)] = 0
             THEN LoadRet([t EXCEPT !.exc = "FileNotFoundError"], << >>)
             ELSE Continue([t EXCEPT !.pc = "l_lock", !.fd = dir[get_session_path(t.id)]])
    IN  /\ t.pc = "l_open"
        /\ th' = [th EXCEPT ![p] = r]
        /\ UNCHANGED <<fixed, now, dir, content, lockedBy, issued, counts, removed, last>>

\* line 155
LoadLock(p) ==
    LET t == th[p]
    IN  /\ t.pc = "l_lock"
        /\ lockedBy[t.fd] = NoThread
        /\ lockedBy' = [lockedBy EXCEPT ![t.fd] = p]
        /\ th' = [th EXCEPT ![p].pc = "l_read"]
        /\ UNCHANGED <<fixed, now, dir, content, issued, counts, removed, last>>

\* a load_session whose lock outlives a json.load that failed
LoadReadStuck(p) ==
    LET t == th[p]
        j == JsonLoad(content[t.fd])
        r == IF j.ok THEN Continue([t EXCEPT !.pc = "l_unlock", !.data = j.val])
             ELSE LoadRet([t EXCEPT !.exc = "JSONDecodeError"], << >>)
    IN  /\ t.pc = "l_read"
        /\ th' = [th EXCEPT ![p] = r]
        /\ UNCHANGED <<fixed, now, dir, content, lockedBy, issued, counts, removed, last>>

\* line 156: json.load; on JSONDecodeError the with block closes the file,
\* which drops the lock, and line 166 returns None
LoadRead(p) ==
    LET t == th[p]
        j == JsonLoad(content[t.fd])
        r == IF j.ok THEN Continue([t EXCEPT !.pc = "l_unlock", !.data = j.val])
             ELSE LoadRet([t EXCEPT !.fd = 0, !.exc = "JSONDecodeError"], << >>)
        th2 == [th EXCEPT ![p] = r]
    IN  /\ t.pc = "l_read"
        /\ th' = th2
        /\ lockedBy' = IF j.ok THEN lockedBy ELSE [lockedBy EXCEPT ![t.fd] = NoThread]
        /\ content' = Gc(content, dir, th2)
        /\ UNCHANGED <<fixed, now, dir, issued, counts, removed, last>>

\* a load_session that leaves its lock in place
LoadUnlockKeep(p) ==
    /\ th[p].pc = "l_unlock"
    /\ th' = [th EXCEPT ![p].pc = "l_check"]
    /\ UNCHANGED <<fixed, now, dir, content, lockedBy, issued, counts, removed, last>>

\* line 157 and the end of the with block
LoadUnlock(p) ==
    LET t == th[p]
        th2 == [th EXCEPT ![p].pc = "l_check", ![p].fd = 0]
    IN  /\ t.pc = "l_unlock"
        /\ lockedBy' = [lockedBy EXCEPT ![t.fd] = NoThread]
        /\ th' = th2
        /\ content' = Gc(content, dir, th2)
        /\ UNCHANGED <<fixed, now, dir, issued, counts, removed, last>>

\* lines 159-163: expired sessions go to delete_session, the others to
\* _update_access_time
LoadCheck(p) ==
    LET t == [th[p] EXCEPT !.tchk = now]
        r == IF is_expired(t.data, now)
             THEN DeleteEntry([t EXCEPT !.stack = Append(@, "delete")], <<t.id>>)
             ELSE Continue([t EXCEPT !.pc = "u_open"])
    IN  /\ th[p].pc = "l_check"
        /\ th' = [th EXCEPT ![p] = r]
        /\ UNCHANGED <<fixed, now, dir, content, lockedBy, issued, counts, removed, last>>

\* a bump that opens its file in a mode that creates it
UpdateOpenCreating(p) ==
    LET t == th[p]
        path == get_session_path(t.id)
        n == IF dir[path] # 0 THEN dir[path] ELSE FreeInode
    IN  /\ t.pc = "u_open"
        /\ dir' = [dir EXCEPT ![path] = n]
        /\ th' = [th EXCEPT ![p].pc = "u_lock", ![p].fd = n]
        /\ UNCHANGED <<fixed, now, content, lockedBy, issued, counts, removed, last>>

\* line 243: open(path, 'r+'); every exception of the bump is swallowed (251)
UpdateOpen(p) ==
    LET t == th[p]
        r == IF dir[get_session_path(t.id)] = 0
             THEN LoadRet([t EXCEPT !.bumpExc = "FileNotFoundError"], <<t.data>>)
             ELSE Continue([t EXCEPT !.pc = "u_lock", !.fd = dir[get_session_path(t.id)]])
    IN  /\ t.pc = "u_open"
        /\ th' = [th EXCEPT ![p] = r]
        /\ UNCHANGED <<fixed, now, dir, content, lockedBy, issued, counts, removed, last>>

\* line 244
UpdateLock(p) ==
    LET t == th[p]
    IN  /\ t.pc = "u_lock"
        /\ lockedBy[t.fd] = NoThread
        /\ lockedBy' = [lockedBy EXCEPT ![t.fd] = p]
        /\ th' = [th EXCEPT ![p].pc = "u_read"]
        /\ UNCHANGED <<fixed, now, dir, content, issued, counts, removed, last>>

\* a bump whose json.load failure reaches the caller of load_session
UpdateReadRaising(p) ==
    LET t == th[p]
        j == JsonLoad(content[t.fd])
        r == IF j.ok THEN Continue([t EXCEPT !.pc = "u_write", !.sess = j.val])
             ELSE LoadRet([t EXCEPT !.fd = 0, !.bumpExc = "JSONDecodeError"], << >>)
        th2 == [th EXCEPT ![p] = r]
    IN  /\ t.pc = "u_read"
        /\ th' = th2
        /\ lockedBy' = IF j.ok THEN lockedBy ELSE [lockedBy EXCEPT ![t.fd] = NoThread]
        /\ content' = Gc(content, dir, th2)
        /\ UNCHANGED <<fixed, now, dir, issued, counts, removed, last>>

\* line 245
UpdateRead(p) ==
    LET t == th[p]
        j == JsonLoad(content[t.fd])
        r == IF j.ok THEN Continue([t EXCEPT !.pc = "u_write", !.sess = j.val])
             ELSE LoadRet([t EXCEPT !.fd = 0, !.bumpExc = "JSONDecodeError"], <<t.data>>)
        th2 == [th EXCEPT ![p] = r]
    IN  /\ t.pc = "u_read"
        /\ th' = th2
        /\ lockedBy' = IF j.ok THEN lockedBy ELSE [lockedBy EXCEPT ![t.fd] = NoThread]
        /\ content' = Gc(content, dir, th2)
        /\ UNCHANGED <<fixed, now, dir, issued, counts, removed, last>>

\* lines 246-249: the record is rewritten from offset 0 and the file cut there
UpdateWrite(p) ==
    LET t == th[p]
    IN  /\ t.pc = "u_write"
        /\ content' = [content EXCEPT ![t.fd] =
                         JsonDump(DictPut(t.sess, "last_accessed", PyInt(now)))]
        /\ th' = [th EXCEPT ![p].pc = "u_unlock"]
        /\ UNCHANGED <<fixed, now, dir, lockedBy, issued, counts, removed, last>>

\* line 250 and the end of the with block; load_session returns at line 164
UpdateUnlock(p) ==
    LET t == th[p]
        r == LoadRet([t EXCEPT !.fd = 0], <<t.data>>)
        th2 == [th EXCEPT ![p] = r]
    IN  /\ t.pc = "u_unlock"
        /\ lockedBy' = [lockedBy EXCEPT ![t.fd] = NoThread]
        /\ th' = th2
        /\ content' = Gc(content, dir, th2)
        /\ UNCHANGED <<fixed, now, dir, issued, counts, removed, last>>

(***************************************************************************)
(* SessionManager.delete_session                                           *)
(***************************************************************************)
CallDelete(p) ==
    /\ MayCall(p)
    /\ \E idopt \in cfg.ids :
         LET call == [op |-> "delete", id |-> idopt, fs |-> 0, exp |-> PyNone]
             r == DeleteEntry([Called(p, call) EXCEPT !.follows = Follows(idopt)], idopt)
         IN  /\ th' = [th EXCEPT ![p] = r]
             /\ CallMade(p, call)
    /\ UNCHANGED <<fixed, now, dir, content, lockedBy, issued, removed>>

\* line 177
DeleteExists(p) ==
    LET t == [th[p] EXCEPT !.touched = TRUE]
        r == IF dir[get_session_path(t.id)] = 0 THEN DeleteRet(t, FALSE)
             ELSE Continue([t EXCEPT !.pc = "d_unlink"])
    IN  /\ th[p].pc = "d_exists"
        /\ th' = [th EXCEPT ![p] = r]
        /\ UNCHANGED <<fixed, now, dir, content, lockedBy, issued, counts, removed, last>>

\* a delete_session that reports a removal when the file has gone meanwhile
DeleteUnlinkQuiet(p) ==
    LET t == th[p]
        r == DeleteRet(t, TRUE)
        th2 == [th EXCEPT ![p] = r]
        d2 == [dir EXCEPT ![get_session_path(t.id)] = 0]
    IN  /\ t.pc = "d_unlink"
        /\ dir' = d2
        /\ th' = th2
        /\ content' = Gc(content, d2, th2)
        /\ removed' = IF dir[get_session_path(t.id)] # 0 THEN removed \cup {t.id} ELSE removed
        /\ UNCHANGED <<fixed, now, lockedBy, issued, counts, last>>

\* lines 178-180; FileNotFoundError goes to line 182 and returns False
DeleteUnlink(p) ==
    LET t == th[p]
        found == dir[get_session_path(t.id)] # 0
        r == DeleteRet([t EXCEPT !.unlinked = IF found THEN @ + 1 ELSE @], found)
        th2 == [th EXCEPT ![p] = r]
        d2 == [dir EXCEPT ![get_session_path(t.id)] = 0]
    IN  /\ t.pc = "d_unlink"
        /\ dir' = d2
        /\ th' = th2
        /\ content' = Gc(content, d2, th2)
        /\ removed' = IF dir[get_session_path(t.id)] # 0 THEN removed \cup {t.id} ELSE removed
        /\ UNCHANGED <<fixed, now, lockedBy, issued, counts, last>>

(***************************************************************************)
(* SessionManager.list_sessions                                            *)
(***************************************************************************)
\* a scan that stops after the file of one id
GlobOne == {path \in Paths : dir[path] # 0 /\ path = get_session_path(IdAbc)}

\* glob("*.json"): the files present when the scan starts
Glob == {path \in Paths : dir[path] # 0}

\* lines 188-190
CallList(p) ==
    /\ MayCall(p)
    /\ th' = [th EXCEPT ![p] =
                [Called(p, [NoCall EXCEPT !.op = "list"])
                   EXCEPT !.pc = "ls_next", !.todo = Glob, !.touched = TRUE]]
    /\ CallMade(p, [NoCall EXCEPT !.op = "list"])
    /\ UNCHANGED <<fixed, now, dir, content, lockedBy, issued, removed>>

\* lines 190-193 and 209: the next file goes through load_session
ListNext(p) ==
    LET t == th[p]
    IN  /\ t.pc = "ls_next"
        /\ IF t.todo = {}
           THEN th' = [th EXCEPT ![p] = Finish(t, "list", t.out)]
           ELSE \E filepath \in t.todo :
                  LET r == LoadEntry([t EXCEPT !.todo = @ \ {filepath},
                                               !.stack = Append(@, "load")],
                                     <<Stem(filepath)>>)
                  IN  /\ th' = [th EXCEPT ![p] = r]
        /\ UNCHANGED <<fixed, now, dir, content, lockedBy, issued, counts, removed, last>>

(***************************************************************************)
(* SessionManager.cleanup_expired_sessions                                 *)
(***************************************************************************)
\* lines 213-215
CallCleanup(p) ==
    /\ MayCall(p)
    /\ th' = [th EXCEPT ![p] =
                [Called(p, [NoCall EXCEPT !.op = "cleanup"])
                   EXCEPT !.pc = "k_next", !.todo = Glob, !.touched = TRUE]]
    /\ CallMade(p, [NoCall EXCEPT !.op = "cleanup"])
    /\ UNCHANGED <<fixed, now, dir, content, lockedBy, issued, removed>>

\* lines 215 and 230
CleanupNext(p) ==
    LET t == th[p]
    IN  /\ t.pc = "k_next"
        /\ IF t.todo = {}
           THEN th' = [th EXCEPT ![p] = Finish(t, "int", <<t.count>>)]
           ELSE \E filepath \in t.todo :
                  th' = [th EXCEPT ![p] =
                           [t EXCEPT !.todo = @ \ {filepath}, !.path = filepath,
                                     !.pc = "k_open"]]
        /\ UNCHANGED <<fixed, now, dir, content, lockedBy, issued, counts, removed, last>>

\* line 217; an exception skips the file (line 224)
CleanupOpen(p) ==
    LET t == th[p]
    IN  /\ t.pc = "k_open"
        /\ th' = [th EXCEPT ![p] =
                    IF dir[t.path] = 0 THEN [t EXCEPT !.pc = "k_next", !.path = << >>]
                    ELSE [t EXCEPT !.pc = "k_lock", !.fd = dir[t.path]]]
        /\ UNCHANGED <<fixed, now, dir, content, lockedBy, issued, counts, removed, last>>

\* line 218
CleanupLock(p) ==
    LET t == th[p]
    IN  /\ t.pc = "k_lock"
        /\ lockedBy[t.fd] = NoThread
        /\ lockedBy' = [lockedBy EXCEPT ![t.fd] = p]
        /\ th' = [th EXCEPT ![p].pc = "k_read"]
        /\ UNCHANGED <<fixed, now, dir, content, issued, counts, removed, last>>

\* a sweep that unlinks and counts the file it cannot parse
CleanupReadPurge(p) ==
    LET t == th[p]
        j == JsonLoad(content[t.fd])
        th2 == [th EXCEPT ![p] =
                  IF j.ok THEN [t EXCEPT !.pc = "k_unlock", !.data = j.val]
                  ELSE [t EXCEPT !.pc = "k_next", !.fd = 0, !.path = << >>,
                                 !.count = @ + 1]]
        d2 == IF j.ok THEN dir ELSE [dir EXCEPT ![t.path] = 0]
    IN  /\ t.pc = "k_read"
        /\ th' = th2
        /\ dir' = d2
        /\ lockedBy' = IF j.ok THEN lockedBy ELSE [lockedBy EXCEPT ![t.fd] = NoThread]
        /\ content' = Gc(content, d2, th2)
        /\ UNCHANGED <<fixed, now, issued, counts, removed, last>>

\* line 219; JSONDecodeError closes the file and skips it (line 224)
CleanupRead(p) ==
    LET t == th[p]
        j == JsonLoad(content[t.fd])
        th2 == [th EXCEPT ![p] =
                  IF j.ok THEN [t EXCEPT !.pc = "k_unlock", !.data = j.val]
                  ELSE [t EXCEPT !.pc = "k_next", !.fd = 0, !.path = << >>]]
    IN  /\ t.pc = "k_read"
        /\ th' = th2
        /\ lockedBy' = IF j.ok THEN lockedBy ELSE [lockedBy EXCEPT ![t.fd] = NoThread]
        /\ content' = Gc(content, dir, th2)
        /\ UNCHANGED <<fixed, now, dir, issued, counts, removed, last>>

\* line 220 and the end of the with block
CleanupUnlock(p) ==
    LET t == th[p]
        th2 == [th EXCEPT ![p].pc = "k_check", ![p].fd = 0]
    IN  /\ t.pc = "k_unlock"
        /\ lockedBy' = [lockedBy EXCEPT ![t.fd] = NoThread]
        /\ th' = th2
        /\ content' = Gc(content, dir, th2)
        /\ UNCHANGED <<fixed, now, dir, issued, counts, removed, last>>

\* a sweep that stamps the records it keeps
CleanupCheckTouch(p) ==
    LET t == [th[p] EXCEPT !.tchk = now]
        expired == is_expired(t.data, now)
        r == IF expired
             THEN DeleteEntry([t EXCEPT !.stack = Append(@, "delete")], <<Stem(t.path)>>)
             ELSE Continue([t EXCEPT !.pc = "k_next", !.path = << >>, !.data = << >>])
    IN  /\ th[p].pc = "k_check"
        /\ th' = [th EXCEPT ![p] = r]
        /\ content' = IF expired \/ dir[t.path] = 0 THEN content
                      ELSE [content EXCEPT ![dir[t.path]] =
                              JsonDump(DictPut(t.data, "last_accessed", PyInt(now)))]
        /\ UNCHANGED <<fixed, now, dir, lockedBy, issued, counts, removed, last>>

\* lines 221-223: an expired file goes to delete_session(filepath.stem) and
\* is counted whatever delete_session returns
CleanupCheck(p) ==
    LET t == [th[p] EXCEPT !.tchk = now]
        r == IF is_expired(t.data, now)
             THEN DeleteEntry([t EXCEPT !.stack = Append(@, "delete")], <<Stem(t.path)>>)
             ELSE Continue([t EXCEPT !.pc = "k_next", !.path = << >>, !.data = << >>])
    IN  /\ th[p].pc = "k_check"
        /\ th' = [th EXCEPT ![p] = r]
        /\ UNCHANGED <<fixed, now, dir, content, lockedBy, issued, counts, removed, last>>

(***************************************************************************)
(* The proxy tools of bionovaq_mcp_server.py that take a session_uuid      *)
(***************************************************************************)
\* one tool that asks for nothing but the session, one that requires an
\* argument of its own
ProxyTools == {"get_user_screen_permissions", "get_screen_config"}

ToolArgs == {<< >>, <<"s">>}

\* session_uuid: str = ""
NoSessionUuid == << << >> >>

ReAuthenticate == "Invalid or expired session. Please login first."

ArgRequired == "screen_name_id is required"

\* lines 532 and 647-650: get_screen_config returns when its screen_name_id
\* is missing; load_session(session_uuid) is called
CallTool(p) ==
    /\ MayCall(p)
    /\ \E name \in ProxyTools, idopt \in cfg.ids \cup {NoSessionUuid}, arg \in ToolArgs :
         LET call == [op |-> "tool", id |-> idopt, fs |-> 0, exp |-> PyNone]
             t0 == [Called(p, call) EXCEPT !.tool.name = name, !.tool.arg = arg]
             r == IF name = "get_screen_config" /\ Len(arg) = 0
                  THEN Finish(t0, "error", ArgRequired)
                  ELSE LoadEntry([t0 EXCEPT !.stack = Append(@, "load"),
                                            !.tool.loaded = TRUE], idopt)
         IN  /\ th' = [th EXCEPT ![p] = r]
             /\ CallMade(p, call)
    /\ UNCHANGED <<fixed, now, dir, content, lockedBy, issued, removed>>

\* lines 533-534: if not session
ToolCheck(p) ==
    LET t == th[p]
        r == IF Len(t.tool.session) = 0 \/ Len(t.tool.session[1]) = 0
             THEN Finish(t, "error", ReAuthenticate)
             ELSE Continue([t EXCEPT !.pc = "t_request"])
    IN  /\ t.pc = "t_check"
        /\ th' = [th EXCEPT ![p] = r]
        /\ UNCHANGED <<fixed, now, dir, content, lockedBy, issued, counts, removed, last>>

\* lines 536-542 and make_api_call, lines 143-223: the request goes to
\* session["api_url"] with session["token"] as its bearer, and succeeds or not
ToolRequest(p) ==
    LET t == th[p]
        session == t.tool.session[1]
        request == [token |-> DictGet(session, "token"), api_url |-> DictGet(session, "api_url")]
    IN  /\ t.pc = "t_request"
        /\ \E success \in BOOLEAN :
             th' = [th EXCEPT ![p] =
                      Finish([t EXCEPT !.tool.req = Append(@, request)], "response", success)]
        /\ UNCHANGED <<fixed, now, dir, content, lockedBy, issued, counts, removed, last>>

(***************************************************************************)
(* The caller takes the result of its call                                 *)
(***************************************************************************)
Return(p) ==
    /\ th[p].pc = "done"
    /\ last' = OpRec(th[p])
    /\ th' = [th EXCEPT ![p] = IdleThread]
    /\ UNCHANGED <<fixed, now, dir, content, lockedBy, issued, counts, removed>>

(***************************************************************************)
(* The clock                                                               *)
(***************************************************************************)
Tick ==
    /\ now < cfg.clockEnd
    /\ now' = now + 1
    /\ UNCHANGED <<fixed, dir, content, lockedBy, issued, th, counts, removed, last>>

(***************************************************************************)
(* Specifications                                                          *)
(***************************************************************************)
InitStore ==
    /\ now = 0
    /\ dir = [path \in Paths |-> 0]
    /\ content = [n \in Inodes |-> << >>]
    /\ lockedBy = [n \in Inodes |-> NoThread]
    /\ issued = {}
    /\ calls = 0
    /\ created = [idopt \in {c[1] : c \in cfg.creates} |-> << >>]
    /\ removed = {}
    /\ th = [p \in ThreadIds |-> IdleThread]
    /\ last = NoOp

None == << >>

Some(x) == <<x>>

\* one caller at a time, on one custom id, with expiry times at the skew
SerialCallers ==
    [threads |-> {"t1"},
     creates |-> {Some(IdAbc)} \X {1, 2},
     ids |-> {Some(IdAbc)},
     exps |-> {Skew, Skew + 1},
     offsets |-> {},
     clockEnd |-> MaxTime,
     maxCalls |-> 0,
     snapshots |-> TRUE]

\* one caller at a time, with generated and custom ids, and the expiry an
\* hour ahead of the authentication exchange
EndToEndCallers ==
    [threads |-> {"t1"},
     creates |-> {None, Some(IdAbc)} \X {1, 2},
     ids |-> {Some(IdAbc)} \cup {Some(u) : u \in UuidPool},
     exps |-> {},
     offsets |-> {3600},
     clockEnd |-> MaxTime,
     maxCalls |-> 0,
     snapshots |-> TRUE]

\* one caller at a time, with identifiers of every shape
CraftedIdCallers ==
    [threads |-> {"t1"},
     creates |-> {Some(<< >>), Some(IdShort), Some(IdTraversal), Some(IdBraced)} \X {1},
     ids |-> {None, Some(<< >>), Some(IdShort), Some(IdTraversal), Some(IdBraced)},
     exps |-> {Skew + 1},
     offsets |-> {},
     clockEnd |-> MaxTime,
     maxCalls |-> 0,
     snapshots |-> TRUE]

\* two callers in parallel, each creating its own custom id with its own fields
ParallelCallers ==
    [threads |-> {"t1", "t2"},
     creates |-> {<<Some(IdAbc), 1>>, <<Some(IdXyz), 2>>},
     ids |-> {Some(IdAbc), Some(IdXyz)},
     exps |-> {},
     offsets |-> {},
     clockEnd |-> 1,
     maxCalls |-> MaxCalls,
     snapshots |-> FALSE]

\* two callers in parallel on one id, with records that are expired from
\* the start and records that never expire
RaceCallers ==
    [threads |-> {"t1", "t2"},
     creates |-> {<<Some(IdAbc), 1>>},
     ids |-> {Some(IdAbc)},
     exps |-> {Skew},
     offsets |-> {},
     clockEnd |-> 1,
     maxCalls |-> MaxCalls,
     snapshots |-> FALSE]

\* one caller at a time, on two ids, with records that expire when the clock
\* moves and records that never expire
ScanCallers ==
    [threads |-> {"t1"},
     creates |-> {<<Some(IdAbc), 1>>, <<Some(IdXyz), 2>>},
     ids |-> {Some(IdAbc)},
     exps |-> {Skew + 1},
     offsets |-> {},
     clockEnd |-> MaxTime,
     maxCalls |-> 0,
     snapshots |-> TRUE]

\* two callers in parallel on one id, two calls in all, with records that
\* never expire
FairCallers == [RaceCallers EXCEPT !.maxCalls = MaxCalls - 1, !.exps = {}]

\* two callers in parallel on one id, creating it with either set of fields,
\* with records that never expire
MixCallers ==
    [RaceCallers EXCEPT !.creates = {<<Some(IdAbc), 1>>, <<Some(IdAbc), 2>>}, !.exps = {}]

\* one caller at a time, on one custom id, with the expiry time 0 among the
\* expiry times
ZeroCallers == [SerialCallers EXCEPT !.exps = {0, Skew + 1}]

InitValidator ==
    /\ cand \in Candidates
    /\ checked = FALSE
    /\ verdict = FALSE
    /\ cfg = SerialCallers
    /\ InitStore

Validate ==
    /\ ~checked
    /\ checked' = TRUE
    /\ verdict' = is_valid_session_id(cand)
    /\ UNCHANGED <<cand, cfg, now, dir, content, lockedBy, issued, th, counts, removed, last>>

NextValidator == Validate

SpecValidator == InitValidator /\ [][NextValidator]_vars

InitIdleValidator ==
    /\ cand = << >>
    /\ checked = FALSE
    /\ verdict = FALSE

Init ==
    /\ InitIdleValidator
    /\ cfg = SerialCallers
    /\ InitStore

InitEndToEnd ==
    /\ InitIdleValidator
    /\ cfg = EndToEndCallers
    /\ InitStore

InitCraftedIds ==
    /\ InitIdleValidator
    /\ cfg = CraftedIdCallers
    /\ InitStore

InitParallel ==
    /\ InitIdleValidator
    /\ cfg = ParallelCallers
    /\ InitStore

\* what an interrupted create_session leaves in its file: nothing after
\* open(path, 'w'), or the start of a record
CorruptTexts ==
    { << >>, <<OpenLine>>,
      Pop(JsonDump(BuildSession(IdAbc, FieldSets[1], PyInt(Skew), 0))) }

\* one caller at a time, on a store where the file of one id does not parse
InitCorrupt ==
    /\ InitIdleValidator
    /\ cfg = SerialCallers
    /\ now = 0
    /\ dir = [path \in Paths |-> IF path = get_session_path(IdAbc) THEN 1 ELSE 0]
    /\ \E text \in CorruptTexts :
         content = [n \in Inodes |-> IF n = 1 THEN text ELSE << >>]
    /\ lockedBy = [n \in Inodes |-> NoThread]
    /\ issued = {}
    /\ calls = 0
    /\ created = [idopt \in {c[1] : c \in cfg.creates} |-> << >>]
    /\ removed = {}
    /\ th = [p \in ThreadIds |-> IdleThread]
    /\ last = NoOp

InitRace ==
    /\ InitIdleValidator
    /\ cfg = RaceCallers
    /\ InitStore

InitScan ==
    /\ InitIdleValidator
    /\ cfg = ScanCallers
    /\ InitStore

InitFair ==
    /\ InitIdleValidator
    /\ cfg = FairCallers
    /\ InitStore

InitMix ==
    /\ InitIdleValidator
    /\ cfg = MixCallers
    /\ InitStore

InitZero ==
    /\ InitIdleValidator
    /\ cfg = ZeroCallers
    /\ InitStore

Next ==
    \/ Tick
    \/ \E p \in ThreadIds :
         \/ CallCreate(p) \/ CreateBuild(p) \/ CreateExists(p) \/ CreateOpen(p)
         \/ CreateLock(p) \/ CreateUnlock(p) \/ CreateClose(p)
         \/ CallLoad(p) \/ LoadExists(p) \/ LoadOpen(p) \/ LoadLock(p) \/ LoadRead(p)
         \/ LoadUnlock(p) \/ LoadCheck(p)
         \/ UpdateOpen(p) \/ UpdateLock(p) \/ UpdateRead(p) \/ UpdateWrite(p)
         \/ UpdateUnlock(p)
         \/ CallDelete(p) \/ DeleteExists(p) \/ DeleteUnlink(p)
         \/ CallList(p) \/ ListNext(p)
         \/ CallCleanup(p) \/ CleanupNext(p) \/ CleanupOpen(p) \/ CleanupLock(p)
         \/ CleanupRead(p) \/ CleanupUnlock(p) \/ CleanupCheck(p)
         \/ Return(p)

Spec == Init /\ [][Next]_vars

SpecEndToEnd == InitEndToEnd /\ [][Next]_vars

SpecCraftedIds == InitCraftedIds /\ [][Next]_vars

SpecParallel == InitParallel /\ [][Next]_vars

SpecCorrupt == InitCorrupt /\ [][Next]_vars

SpecRace == InitRace /\ [][Next]_vars

SpecScan == InitScan /\ [][Next]_vars

SpecMix == InitMix /\ [][Next]_vars

SpecZero == InitZero /\ [][Next]_vars

\* the store and the proxy tools
NextProxy ==
    \/ Next
    \/ \E p \in ThreadIds : CallTool(p) \/ ToolCheck(p) \/ ToolRequest(p)

SpecProxy == Init /\ [][NextProxy]_vars

\* the steps of thread p inside a call, and the return to its caller
Step(p) ==
    \/ CreateBuild(p) \/ CreateExists(p) \/ CreateOpen(p)
    \/ CreateLock(p) \/ CreateUnlock(p) \/ CreateClose(p)
    \/ LoadExists(p) \/ LoadOpen(p) \/ LoadLock(p) \/ LoadRead(p)
    \/ LoadUnlock(p) \/ LoadCheck(p)
    \/ UpdateOpen(p) \/ UpdateLock(p) \/ UpdateRead(p) \/ UpdateWrite(p)
    \/ UpdateUnlock(p)
    \/ DeleteExists(p) \/ DeleteUnlink(p)
    \/ ListNext(p)
    \/ CleanupNext(p) \/ CleanupOpen(p) \/ CleanupLock(p)
    \/ CleanupRead(p) \/ CleanupUnlock(p) \/ CleanupCheck(p)
    \/ ToolCheck(p) \/ ToolRequest(p)
    \/ Return(p)

\* every thread that can take a step is scheduled in the end; callers need
\* not call
SpecFair == InitFair /\ [][Next]_vars /\ \A p \in ThreadIds : WF_vars(Step(p))

(***************************************************************************)
(* What the properties below speak of                                      *)
(***************************************************************************)
Done(p) == th[p].pc = "done"

\* the call of thread p has returned, it was op and was given an id
Returned(p, op) == Done(p) /\ th[p].call.op = op /\ Len(th[p].call.id) = 1

\* the grammar of session ids: a UUID in its canonical text, or 3 to 64
\* characters among letters, digits, "_" and "-"
GrammarAccepts(s) ==
    \/ IsCanonicalUuid(s)
    \/ LengthInRange(s) /\ \A i \in 1..Len(s) : s[i] \in allowed_chars

\* the record d holds the id, the fields f and the expiry exp; a claims map
\* that was not given is the empty map
Stored(d, id, f, exp) ==
    /\ DictGet(d, "session_id") = PyStr(id)
    /\ DictGet(d, "token") = PyStr(f.token)
    /\ DictGet(d, "api_url") = PyStr(f.api_url)
    /\ DictGet(d, "portal_domain") = PyStr(f.portal_domain)
    /\ DictGet(d, "user_email") = PyStr(f.user_email)
    /\ DictGet(d, "app_user_id") = PyStr(f.app_user_id)
    /\ DictGet(d, "company_id") = PyStr(f.company_id)
    /\ DictGet(d, "profile_id") = PyStr(f.profile_id)
    /\ DictGet(d, "exp") = exp
    /\ DictGet(d, "user_data") = IF IsNone(f.user_data) THEN PyDict(<< >>) ELSE f.user_data

\* the file of id held a well-formed record when the call of thread p was made
HadRecord(p, id) ==
    /\ id \in Names
    /\ th[p].pre[id] # << >>
    /\ JsonLoad(th[p].pre[id][1]).ok

PreRecord(p, id) == JsonLoad(th[p].pre[id][1]).val

HadExpiry(p, id) == HadRecord(p, id) /\ Truthy(DictGet(PreRecord(p, id), "exp"))

HadNoExpiry(p, id) == HadRecord(p, id) /\ IsNone(DictGet(PreRecord(p, id), "exp"))

PreExp(p, id) == DictGet(PreRecord(p, id), "exp")[2]

Listed(out, id) == \E i \in 1..Len(out) : out[i].session_id = id

\* two records that differ in their access time at most
SameButAccess(a, b) ==
    DictPut(a, "last_accessed", PyInt(0)) = DictPut(b, "last_accessed", PyInt(0))

(***************************************************************************)
(* C1..C10                                                                 *)
(***************************************************************************)
\* C1: a load_session that follows create_session on the id it returned,
\* with no call in between and the expiry not within 60 seconds of the
\* clock, returns the record, holding the fields and the expiry given to
\* create_session and the id, whether the id was given or generated.
C1_RoundTrip ==
    \A p \in ThreadIds :
      LET t == th[p]
          c == th[p].follows
      IN  ( /\ Returned(p, "load")
            /\ c.op = "create" /\ c.kind = "id" /\ c.ret = t.call.id[1]
            /\ IsNone(c.exp) \/ now < c.exp[2] - Skew )
          => /\ t.res.kind = "dict"
             /\ Stored(t.res.val[1], t.call.id[1], FieldSets[c.fs], c.exp)

C1_Witness ==
    \E p \in ThreadIds :
      /\ Returned(p, "load")
      /\ th[p].follows.op = "create" /\ th[p].follows.id = None
      /\ th[p].follows.ret = th[p].call.id[1]
      /\ th[p].follows.fs = 1 /\ ~IsNone(th[p].follows.exp)
      /\ th[p].res.kind = "dict"

\* C2: create_session, load_session and delete_session given an id outside
\* the grammar, the empty string included, raise ValueError, and do so
\* before they access storage.
C2_InvalidIdRaises ==
    \A p \in ThreadIds :
      ( /\ Done(p) /\ th[p].call.op \in {"create", "load", "delete"}
        /\ Len(th[p].call.id) = 1
        /\ ~GrammarAccepts(th[p].call.id[1]) )
      => th[p].res.kind = "ValueError" /\ ~th[p].touched

\* C3: create_session given an id outside the grammar raises ValueError and
\* leaves the files as they were: no record is created, none is changed.
C3_InvalidCreateNoEffect ==
    \A p \in ThreadIds :
      (Returned(p, "create") /\ ~GrammarAccepts(th[p].call.id[1]))
      => th[p].res.kind = "ValueError" /\ Files = th[p].pre

\* C4: _is_valid_session_id accepts a string exactly when the grammar does.
C4_ValidatorIsGrammar == checked => (verdict <=> GrammarAccepts(cand))

\* C5: load_session of a record with a positive expiry exp returns None
\* exactly when the clock it reads is at or past exp - 60, and list_sessions
\* leaves out a record that was at or past exp - 60 when the call was made
\* and has a record that is before exp - 60 when the call returns.
C5_ExpirationBoundary ==
    \A p \in ThreadIds :
      LET t == th[p]
      IN  /\ (Returned(p, "load") /\ HadExpiry(p, t.call.id[1]))
             => (t.res.kind = "None" <=> t.tchk >= PreExp(p, t.call.id[1]) - Skew)
          /\ (Done(p) /\ t.call.op = "list")
             => \A id \in Names :
                  HadExpiry(p, id)
                  => /\ t.t0 >= PreExp(p, id) - Skew => ~Listed(t.res.val, id)
                     /\ now < PreExp(p, id) - Skew => Listed(t.res.val, id)

C5_Witness ==
    \E p \in ThreadIds :
      /\ Returned(p, "load") /\ HadExpiry(p, th[p].call.id[1])
      /\ th[p].tchk > 0
      /\ PreExp(p, th[p].call.id[1]) = th[p].tchk + Skew
      /\ th[p].res.kind = "None"

C7_IdempotentDelete ==
    \A p \in ThreadIds :
      LET t == th[p]
          id == th[p].call.id[1]
      IN  (Returned(p, "delete") /\ id \in Names)
          => /\ t.res.kind \in {"True", "False"}
             /\ t.res.kind = "True" <=> t.pre[id] # << >>
             /\ Files[id] = << >>
             /\ \A other \in Names \ {id} : Files[other] = t.pre[other]
             /\ t.follows.op = "delete" => t.res.kind = "False"

C7_Witness ==
    \E p \in ThreadIds :
      /\ Returned(p, "delete")
      /\ th[p].follows.op = "delete" /\ th[p].follows.kind = "True"
      /\ th[p].res.kind = "False"

\* the fields the callers give to create_session for id
FieldsFor(id) == FieldSets[(CHOOSE c \in cfg.creates : c[1] = Some(id))[2]]

\* the calls made so far are one create_session for each id and then the
\* call of thread p
AfterCreates(p) ==
    /\ \A idopt \in DOMAIN created : Len(created[idopt]) = 1
    /\ th[p].nth = Cardinality(DOMAIN created) + 1
    /\ calls = th[p].nth

\* C8: create_session calls with distinct valid ids running in parallel all
\* return their id, and a load_session made after they have returned gets
\* the record of its id with the fields given to that id's create_session.
C8_ParallelCreates ==
    \A p \in ThreadIds :
      LET t == th[p]
      IN  /\ (Returned(p, "create") /\ is_valid_session_id(t.call.id[1]))
             => t.res.kind = "id" /\ t.res.val = t.call.id[1]
          /\ (Returned(p, "load") /\ t.quiet /\ AfterCreates(p))
             => /\ t.res.kind = "dict"
                /\ Stored(t.res.val[1], t.call.id[1], FieldsFor(t.call.id[1]), PyNone)

C8_Witness ==
    \E p \in ThreadIds :
      /\ Returned(p, "load") /\ th[p].quiet /\ AfterCreates(p)
      /\ \E idopt \in DOMAIN created : created[idopt] = <<FALSE>>
      /\ th[p].res.kind = "dict"

\* C9: create_session without an id returns a canonical UUID that had no
\* file; the load_session that follows it returns the record with the token
\* given; a delete_session that follows a load_session that returned the
\* record returns True; and once the file of a generated id has been
\* unlinked it is never there again and load_session of it returns None.
C9_EndToEnd ==
    /\ \A u \in issued \cap removed : Files[u] = << >>
    /\ \A p \in ThreadIds :
         LET t == th[p]
             c == th[p].follows
         IN  /\ (Done(p) /\ t.call.op = "create" /\ t.call.id = None)
                => /\ t.res.kind = "id"
                   /\ IsCanonicalUuid(t.res.val)
                   /\ t.pre[t.res.val] = << >>
             /\ ( /\ Returned(p, "load")
                  /\ c.op = "create" /\ c.id = None /\ c.ret = t.call.id[1]
                  /\ ~IsNone(c.exp) )
                => /\ t.res.kind = "dict"
                   /\ DictGet(t.res.val[1], "token") = PyStr(FieldSets[c.fs].token)
             /\ ( /\ Returned(p, "delete") /\ t.call.id[1] \in issued
                  /\ c.op = "load" /\ c.kind = "dict" )
                => t.res.kind = "True"
             /\ (Returned(p, "load") /\ t.call.id[1] \in issued \cap removed)
                => t.res.kind = "None"

C9_Witness ==
    \E p \in ThreadIds :
      /\ Returned(p, "load") /\ th[p].call.id[1] \in issued \cap removed
      /\ th[p].follows.op = "delete" /\ th[p].follows.kind = "True"
      /\ th[p].res.kind = "None"

\* C10: a load_session whose json.load failed does not return None.
C10_ParseFailureNotAbsent ==
    \A p \in ThreadIds :
      (Returned(p, "load") /\ th[p].exc = "JSONDecodeError") => th[p].res.kind # "None"

(***************************************************************************)
(* C11..C20                                                                *)
(***************************************************************************)
\* the file of id was there and did not parse when the call of p was made
HadUnparseable(p, id) == th[p].pre[id] # << >> /\ ~JsonLoad(th[p].pre[id][1]).ok

\* the ids whose file was there when the call of p was made and is gone
Gone(p) == {id \in Names : th[p].pre[id] # << >> /\ Files[id] = << >>}

\* C11: a file that does not parse when load_session, list_sessions or
\* cleanup_expired_sessions is called is there with the same content when
\* the call returns, and cleanup_expired_sessions counts only the files it
\* removed.
C11_UnparseableKept ==
    \A p \in ThreadIds :
      (Done(p) /\ th[p].call.op \in {"load", "list", "cleanup"})
      => /\ \A id \in Names : HadUnparseable(p, id) => Files[id] = th[p].pre[id]
         /\ th[p].call.op = "cleanup" => th[p].res.val[1] = Cardinality(Gone(p))

C11_Witness ==
    \E p \in ThreadIds :
      /\ Done(p) /\ th[p].call.op = "cleanup" /\ th[p].t0 > 0
      /\ HadUnparseable(p, IdAbc)
      /\ Len(th[p].pre[IdAbc][1]) > 1
      /\ Files[IdAbc] = th[p].pre[IdAbc]

\* C12: whenever load_session holds the lock and is about to run json.load,
\* the file holds a complete record of its id.
C12_LoadReadsWhole ==
    \A p \in ThreadIds :
      th[p].pc = "l_read"
      => /\ JsonLoad(content[th[p].fd]).ok
         /\ DictGet(JsonLoad(content[th[p].fd]).val, "session_id") = PyStr(th[p].id)

\* C13: a step that makes the file of an id exist again after it has been
\* unlinked is the open(path, 'w') of a create_session that was given that id.
C13_DeletedIsTerminal ==
    [][\A id \in Names :
         ( /\ id \in removed
           /\ dir[get_session_path(id)] = 0
           /\ dir'[get_session_path(id)] # 0 )
         => \E p \in ThreadIds :
              /\ th[p].pc = "c_open" /\ th'[p].pc = "c_lock"
              /\ th[p].call.op = "create" /\ th[p].call.id = Some(id)]_vars

C13_Witness ==
    \E p \in ThreadIds :
      /\ th[p].pc = "u_unlock" /\ th[p].call.op = "load"
      /\ th[p].id \in removed
      /\ dir[get_session_path(th[p].id)] = 0

\* C14: when load_session or cleanup_expired_sessions is about to unlink the
\* file of a record it found expired, the record in the file is expired.
C14_RemovesOnlyExpired ==
    \A p \in ThreadIds :
      LET path == get_session_path(th[p].id)
      IN  ( /\ th[p].pc = "d_unlink" /\ th[p].call.op \in {"load", "cleanup"}
            /\ dir[path] # 0
            /\ JsonLoad(content[dir[path]]).ok )
          => is_expired(JsonLoad(content[dir[path]]).val, now)

\* C15: a record that is there when a call is made and there when it
\* returns has the created_at it had, whatever the call was.
C15_CreatedAtKept ==
    \A p \in ThreadIds :
      Done(p)
      => \A id \in Names :
           (HadRecord(p, id) /\ Files[id] # << >> /\ JsonLoad(Files[id][1]).ok)
           => DictGet(JsonLoad(Files[id][1]).val, "created_at")
                = DictGet(PreRecord(p, id), "created_at")

\* thread p has the file of its id open and the file holds a record
WritesOverRecord(p) ==
    /\ th[p].fd # 0
    /\ dir[get_session_path(th[p].id)] = th[p].fd
    /\ JsonLoad(content[th[p].fd]).ok

LastAccessed(text) == DictGet(JsonLoad(text).val, "last_accessed")[2]

\* C16: when create_session is about to flush its record, or
\* _update_access_time to rewrite the record, over a record in the file of
\* the id, the last_accessed it writes is not smaller than the one there.
C16_LastAccessedGrows ==
    \A p \in ThreadIds :
      /\ (th[p].pc = "c_close" /\ WritesOverRecord(p))
         => DictGet(th[p].data, "last_accessed")[2] >= LastAccessed(content[th[p].fd])
      /\ (th[p].pc = "u_write" /\ WritesOverRecord(p))
         => now >= LastAccessed(content[th[p].fd])

\* C17: a load_session whose _update_access_time failed returns the record
\* it read, which is a record of its id.
C17_BumpFailureSwallowed ==
    \A p \in ThreadIds :
      (Returned(p, "load") /\ th[p].bumpExc # "")
      => /\ th[p].res.kind = "dict"
         /\ th[p].res.val = <<th[p].data>>
         /\ Stored(th[p].data, th[p].call.id[1], FieldsFor(th[p].call.id[1]), PyNone)

C17_Witness ==
    \E p \in ThreadIds :
      /\ Returned(p, "load") /\ th[p].bumpExc = "JSONDecodeError"
      /\ th[p].res.kind = "dict"

\* the summaries of id in what list_sessions returned
SummariesOf(out, id) == {i \in 1..Len(out) : out[i].session_id = id}

\* the record of id was expired when the call of p was made
ExpiredAtCall(p, id) == HadExpiry(p, id) /\ th[p].t0 >= PreExp(p, id) - Skew

\* the record of id is not expired when the call of p returns
LiveAtReturn(p, id) == HadNoExpiry(p, id) \/ (HadExpiry(p, id) /\ now < PreExp(p, id) - Skew)

\* C18: list_sessions called by the only caller returns one summary, with
\* the fields of the record, for each record that is not expired when it
\* returns, none for a record that was expired when it was called and none
\* for an id without a file; the records it does not list are the ones it
\* removed, and it lists each id at most once.
C18_ListSerial ==
    \A p \in ThreadIds :
      (Done(p) /\ th[p].call.op = "list")
      => \A id \in Names :
           LET out == th[p].res.val
           IN  /\ Cardinality(SummariesOf(out, id)) <= 1
               /\ LiveAtReturn(p, id) => Listed(out, id)
               /\ ExpiredAtCall(p, id) => ~Listed(out, id)
               /\ th[p].pre[id] = << >> => ~Listed(out, id)
               /\ HadRecord(p, id) => (Listed(out, id) <=> Files[id] # << >>)
               /\ \A i \in SummariesOf(out, id) :
                    /\ HadRecord(p, id)
                    /\ out[i].user_email = DictGet(PreRecord(p, id), "user_email")
                    /\ out[i].company_id = DictGet(PreRecord(p, id), "company_id")

C18_Witness ==
    \E p \in ThreadIds :
      /\ Done(p) /\ th[p].call.op = "list"
      /\ ExpiredAtCall(p, IdAbc) /\ LiveAtReturn(p, IdXyz)
      /\ Files[IdAbc] = << >>
      /\ Len(th[p].res.val) = 1

\* C19: cleanup_expired_sessions called by the only caller removes each
\* record that was expired when it was called, whether or not load_session
\* ran on it, leaves each record that is not expired when it returns as it
\* was, and returns the number of files it removed.
C19_SweepSerial ==
    \A p \in ThreadIds :
      (Done(p) /\ th[p].call.op = "cleanup")
      => /\ \A id \in Names :
              /\ ExpiredAtCall(p, id) => Files[id] = << >>
              /\ LiveAtReturn(p, id) => Files[id] = th[p].pre[id]
              /\ th[p].pre[id] = << >> => Files[id] = << >>
         /\ th[p].res.val[1] = Cardinality(Gone(p))

C19_Witness ==
    \E p \in ThreadIds :
      /\ Done(p) /\ th[p].call.op = "cleanup"
      /\ ExpiredAtCall(p, IdAbc) /\ LiveAtReturn(p, IdXyz)
      /\ th[p].res.val = <<1>>

\* d is a record of id with the fields f and the expiry exp and nothing else
Exactly(d, id, f, exp) ==
    /\ Stored(d, id, f, exp)
    /\ Len(d) = Len(BuildSession(id, f, exp, 0))
    /\ \A i, j \in 1..Len(d) : d[i][1] = d[j][1] => i = j

\* C20: create_session on an id that has a record returns the id and leaves
\* in the file of the id a record with exactly the fields it was given, and
\* the load_session that follows such a create_session, the record not
\* being expired, returns exactly those fields.
C20_Overwrite ==
    \A p \in ThreadIds :
      LET t == th[p]
          c == th[p].follows
      IN  /\ (Returned(p, "create") /\ HadRecord(p, t.call.id[1]))
             => /\ t.res.kind = "id" /\ t.res.val = t.call.id[1]
                /\ Files[t.call.id[1]] # << >>
                /\ JsonLoad(Files[t.call.id[1]][1]).ok
                /\ Exactly(JsonLoad(Files[t.call.id[1]][1]).val, t.call.id[1],
                           FieldSets[t.call.fs], t.call.exp)
          /\ ( /\ Returned(p, "load")
               /\ c.op = "create" /\ c.over /\ c.ret = t.call.id[1]
               /\ IsNone(c.exp) \/ now < c.exp[2] - Skew )
             => /\ t.res.kind = "dict"
                /\ Exactly(t.res.val[1], t.call.id[1], FieldSets[c.fs], c.exp)

C20_Witness ==
    \E p \in ThreadIds :
      /\ Returned(p, "load")
      /\ th[p].follows.op = "create" /\ th[p].follows.over
      /\ th[p].follows.fs = 2
      /\ DictGet(PreRecord(p, th[p].call.id[1]), "user_data") = PyDict(<< >>)
      /\ th[p].res.kind = "dict"

(***************************************************************************)
(* C21..C30                                                                *)
(***************************************************************************)
\* the files thread p holds the lock of
LocksOf(p) == {n \in Inodes : lockedBy[n] = p}

\* where a thread is about to call lock_file
LockPcs == {"c_lock", "l_lock", "u_lock", "k_lock"}

\* C21: a thread holds the lock of one file at most, and of none when it is
\* about to call lock_file: load_session has given up its lock when
\* _update_access_time takes one.
C21_OneLock ==
    \A p \in ThreadIds :
      /\ Cardinality(LocksOf(p)) <= 1
      /\ th[p].pc \in LockPcs => LocksOf(p) = {}

C21_Witness ==
    \E p \in ThreadIds, q \in ThreadIds :
      /\ th[p].pc = "u_read" /\ LocksOf(p) = {th[p].fd}
      /\ q # p /\ th[q].pc = "c_unlock" /\ LocksOf(q) = {th[q].fd}

\* the calls on one id given by their caller
IdOps == {"create", "load", "delete"}

\* thread p takes a step inside a create_session, load_session or
\* delete_session call
StepsInIdOp(p) ==
    /\ th'[p] # th[p]
    /\ th[p].call.op \in IdOps
    /\ th[p].pc \notin {"idle", "done"}

\* thread p is at a lock_file the thread q keeps it from passing
WaitsFor(p, q) ==
    /\ q # p
    /\ th[p].pc \in LockPcs
    /\ lockedBy[th[p].fd] = q

\* the id whose file thread q is at: cleanup_expired_sessions keeps the path
IdAt(q) == IF th[q].path # << >> THEN Stem(th[q].path) ELSE th[q].id

\* C22: create_session, load_session and delete_session on an id never wait
\* for a lock held by a call working on another id, and no step of theirs
\* changes the record of another id.
C22_NoContention ==
    [][ /\ \A p \in ThreadIds, q \in ThreadIds :
             (WaitsFor(p, q) /\ th[p].call.op \in IdOps) => IdAt(q) = th[p].id
        /\ \A p \in ThreadIds :
             StepsInIdOp(p) => \A B \in Names \ {th[p].id} : Files'[B] = Files[B]
      ]_vars

\* a load_session on one id has taken its lock while a create_session on
\* another id holds its own
C22_Witness ==
    \E p \in ThreadIds, q \in ThreadIds :
      /\ q # p
      /\ th[p].call.op = "load" /\ th[p].pc = "l_read" /\ LocksOf(p) = {th[p].fd}
      /\ th[q].call.op = "create" /\ th[q].pc = "c_unlock" /\ LocksOf(q) = {th[q].fd}
      /\ th[q].id # th[p].id
      /\ Files[th[p].id] # << >>

\* thread p is inside a call
Busy(p) == th[p].pc \notin {"idle", "done"}

\* no call is in progress and no lock is held
AllQuiet == \A p \in ThreadIds : ~Busy(p) /\ LocksOf(p) = {}

\* C23: under fair scheduling, whenever a call is in progress or a lock is
\* held there comes a moment when every call has returned and every lock has
\* been given back: a caller waiting at a lock_file gets the lock, also after
\* a json.load that failed under it, and every call returns.
C23_LocksReleased == ~AllQuiet ~> AllQuiet

\* a load_session waits at its lock_file for the create_session that holds
\* the lock of the file it has just emptied
C23_Witness ==
    \E p \in ThreadIds, q \in ThreadIds :
      /\ WaitsFor(p, q)
      /\ th[p].pc = "l_lock"
      /\ th[q].pc = "c_unlock"
      /\ content[th[p].fd] = << >>

\* C24: when _update_access_time, called by load_session for its caller or
\* for list_sessions, is about to rewrite the file of its id over a record,
\* the record it writes differs from the one there in last_accessed only;
\* cleanup_expired_sessions writes to no file.
C24_BusinessFieldsKept ==
    \A p \in ThreadIds :
      (th[p].pc = "u_write" /\ WritesOverRecord(p))
        => SameButAccess(th[p].sess, JsonLoad(content[th[p].fd]).val)

\* the call of thread p was a proxy tool and has returned
ToolReturned(p) == Done(p) /\ th[p].call.op = "tool"

\* C25: a proxy tool that takes a session_uuid has called load_session when
\* it returns; where load_session returned None it returns the
\* re-authenticate error and has sent no request, and where load_session
\* returned a record it has sent one request, with the token and the
\* api_url of the record.
C25_ProxyLoadsFirst ==
    \A p \in ThreadIds :
      ToolReturned(p) =>
        LET t == th[p].tool
        IN  /\ t.loaded
            /\ Len(t.session) = 0
                 => th[p].res = [kind |-> "error", val |-> ReAuthenticate] /\ t.req = << >>
            /\ Len(t.session) = 1
                 => /\ th[p].res.kind = "response"
                    /\ t.req = << [token |-> DictGet(t.session[1], "token"),
                                   api_url |-> DictGet(t.session[1], "api_url")] >>

\* the calls of p and q are delete_session on the id abc, which has a record:
\* the one create_session made on it had returned when p called, and q
\* called while p was inside its call
DeletesTogether(p, q) ==
    /\ p # q
    /\ Returned(p, "delete") /\ Returned(q, "delete")
    /\ created[Some(IdAbc)] = <<TRUE>>
    /\ th[p].nth = 2 /\ th[p].quiet
    /\ th[q].nth = 3 /\ ~th[q].quiet

\* C26: of two delete_session calls that run together on an id that has a
\* record, one returns True and the other False, and the file is gone.
C26_OneDeleteWins ==
    \A p \in ThreadIds, q \in ThreadIds :
      DeletesTogether(p, q)
        => /\ {th[p].res.kind, th[q].res.kind} = {"True", "False"}
           /\ Files[IdAbc] = << >>

\* the call made second is the one that removed the file
C26_Witness ==
    \E p \in ThreadIds, q \in ThreadIds :
      /\ DeletesTogether(p, q)
      /\ th[q].res.kind = "True"
      /\ th[p].res.kind = "False"

\* C27: once no call is in progress, the file of the id, if there is one,
\* holds a well-formed record with exactly the fields of one of the
\* create_session calls.
C27_OneCreateWins ==
    (\A p \in ThreadIds : ~Busy(p))
      => \/ Files[IdAbc] = << >>
         \/ /\ JsonLoad(Files[IdAbc][1]).ok
            /\ \E c \in cfg.creates, exp \in ExpChoices :
                 Exactly(JsonLoad(Files[IdAbc][1]).val, IdAbc, FieldSets[c[2]], exp)

\* C28: the number cleanup_expired_sessions returns is the number of files
\* the call has removed.
C28_CountIsRemoved ==
    \A p \in ThreadIds :
      (Done(p) /\ th[p].call.op = "cleanup") => th[p].res.val[1] = th[p].unlinked

\* thread p takes a step inside cleanup_expired_sessions
StepsInSweep(p) == th'[p] # th[p] /\ th[p].call.op = "cleanup"

HadIntExpiry(p, id) == HadRecord(p, id) /\ DictGet(PreRecord(p, id), "exp")[1] = "int"

\* C30: a load_session by the only caller, on a record whose exp is an
\* integer, 0 included, that reads the clock at or after exp - 60, returns
\* None.
C30_ZeroIsDeadline ==
    \A p \in ThreadIds :
      ( /\ Returned(p, "load")
        /\ HadIntExpiry(p, th[p].call.id[1])
        /\ th[p].tchk >= PreExp(p, th[p].call.id[1]) - Skew )
      => th[p].res.kind = "None"

====
